---- MODULE Spec2Model ----
(***************************************************************************)
(* Model of the admission-controlled execution gateway of                  *)
(* src/image-service/server.py: the metrics counters, the asyncio          *)
(* semaphore that bounds concurrent executions, the queue limit of         *)
(* _acquire_slot, the deadline and the exit paths of _run_processing, the  *)
(* disk guard and the lifespan / signal handling (Spec, FairSpec); and of  *)
(* the Metrics duration buffers with the endpoint closures that fill them  *)
(* from the executor's threads (MetricsSpec).  Spec keeps of a stage       *)
(* function only whether its thread still runs; MetricsSpec follows the    *)
(* closures stage by stage and keeps the gateway still; SnapshotSpec adds   *)
(* Metrics.to_dict(), which reads the buffers on the event loop's thread   *)
(* while the closures append to them.                                      *)
(*                                                                         *)
(* The event loop is single threaded: a coroutine runs without             *)
(* interruption between two awaits, so every action below is the code      *)
(* between two suspension points.  asyncio.Semaphore is modelled as        *)
(* CPython 3.11 implements it (a FIFO of waiter futures, the permit handed *)
(* to the first pending future by release()).                              *)
(***************************************************************************)
EXTENDS Integers, Sequences, FiniteSets, TLC

\* ------------------------------------------------------------------ bounds
NumReq == 3          \* requests, each submitted at most once
MaxConcurrent == 2   \* MAX_CONCURRENT is configured in 1..MaxConcurrent
MaxQueue == 1        \* MAX_QUEUE_SIZE is configured in 0..MaxQueue
NumThreads == 2      \* threads of the executor's pool that run endpoint closures
MaxClosures == 2     \* closures handed to the pool while GET /metrics is followed

\* ------------------------------------------------------- program constants
REQUEST_TIMEOUT == 2 \* the configured deadline, in clock ticks
MIN_DISK_MB == 500
maxlen == 2          \* capacity of each duration deque (1000 in the source)

Requests == 1..NumReq
Threads == 1..NumThreads

\* The keys of metrics.stage_times.
StageNames == {"bg_removal", "processing", "template"}

\* What time.time() differences a closure can measure, in clock ticks.
Durations == {1, 2}

\* The endpoints that hand a closure to _run_processing, and the stages
\* each closure runs, in order.
Endpoints == {"remove_bg", "process", "render_template", "process_full"}
Pipeline(ep) ==
    CASE ep = "remove_bg"       -> <<"bg_removal">>
      [] ep = "process"         -> <<"bg_removal", "processing">>
      [] ep = "render_template" -> <<"template">>
      [] ep = "process_full"    -> <<"bg_removal", "processing", "template">>

\* What psutil.disk_usage("/") can give: free MB below the minimum, free MB
\* at the minimum, or (-1) an exception raised by the probe.
DiskProbes == {MIN_DISK_MB - 1, MIN_DISK_MB, -1}

VARIABLES
    MAX_CONCURRENT,   \* configuration, read once from the environment
    MAX_QUEUE_SIZE,   \* configuration, read once from the environment
    phase,            \* position of lifespan(): "uninitialized", "running", "stopped"
    shutdown_event,   \* _shutdown_event.is_set()
    semaphore,        \* _semaphore: [value, waiters]
    metrics,          \* the Metrics singleton (counters)
    pc,               \* position of each request's coroutine
    result,           \* what each request returned to its caller
    elapsed,          \* ticks since the request's wait_for started
    worker,           \* the executor thread running the request's stages (the
                      \* default pool has at least 5 threads: never exhausted here)
    acquires,         \* history: times _acquire_slot returned normally, per request
    releases,         \* history: times _release_slot ran, per request
    waiting_at_signal,\* history: the callers still suspended in acquire() that
                      \* were already suspended when a termination signal came
    disk_low,         \* history: the latest submission's probe returned a free
                      \* space below MIN_DISK_MB
    processing_times, \* metrics.processing_times: deque(maxlen) of durations
    stage_times,      \* metrics.stage_times: a deque(maxlen) per stage name
    pool,             \* the executor's threads: the endpoint closure (_do) each
                      \* one runs and the stage that closure is in
    evicted,          \* history: some append found its deque full
    snapshot,         \* position of Metrics.to_dict() on the event loop: the means
                      \* it has evaluated, the one it evaluated last, and the sum
                      \* it holds between sum(d) and len(d)
    existed,          \* history: the contents each deque has had so far
    handed            \* history: the closures handed to the pool so far

\* The state of the gateway (event loop side) and the state of the duration
\* buffers with the threads that fill them.
gateway_vars == <<MAX_CONCURRENT, MAX_QUEUE_SIZE, phase, shutdown_event, semaphore,
                  metrics, pc, result, elapsed, worker, acquires, releases,
                  waiting_at_signal, disk_low>>
buffer_vars == <<processing_times, stage_times, pool, evicted, snapshot, existed, handed>>

vars == <<gateway_vars, buffer_vars>>

\* pc values:
\*   idle       not submitted yet
\*   waiting    suspended in _semaphore.acquire(), future pending
\*   granted    future resolved by release() (permit handed over), coroutine not yet resumed
\*   wcancel    future cancelled (task cancelled while waiting), coroutine not yet resumed
\*   executing  suspended in asyncio.wait_for(run_in_executor(...))
\*   done       returned or raised to the caller
PcValues == {"idle", "waiting", "granted", "wcancel", "executing", "done"}
\* "ShuttingDown" is the rejection the spec names; no path of the code gives it.
Results == {"none", "ok", "ResourceExhausted", "QueueFull", "Timeout",
            "StageError", "Cancelled", "ShuttingDown"}

\* ----------------------------------------------------------------- helpers
SetMin(S) == CHOOSE x \in S : \A y \in S : x <= y

Remove(seq, r) == SelectSeq(seq, LAMBDA x : x # r)

InitMetrics ==
    [total_requests |-> 0, total_success |-> 0, total_errors |-> 0,
     total_timeouts |-> 0, total_rejected |-> 0,
     current_processing |-> 0, current_queued |-> 0]

\* A pool thread that runs no closure.
IdleThread == [ep |-> "idle", at |-> 0]

\* deque(maxlen=...).append(x): with the deque full, the oldest sample (the
\* left end) is discarded.
\* (variant: a list, which grows without bound)
deque_append_Unbounded(d, x) == Append(d, x)
deque_append(d, x) ==
    IF Len(d) = maxlen THEN Append(Tail(d), x) ELSE Append(d, x)

\* sum(d)
RECURSIVE SumSeq(_)
SumSeq(d) == IF d = <<>> THEN 0 ELSE Head(d) + SumSeq(Tail(d))

\* Python's a / b: the quotient, or ZeroDivisionError when b is 0.
true_div(a, b) == [zero_division |-> b = 0, num |-> a, den |-> b]
\* Python's 0, the value of the else branches below.
Zero == [zero_division |-> FALSE, num |-> 0, den |-> 1]

\* Metrics.avg_time, over self.processing_times.
avg_time(pt) == IF pt # <<>> THEN true_div(SumSeq(pt), Len(pt)) ELSE Zero

\* to_dict, lines 86 and 91-93: the deques whose means it evaluates, in the
\* order it evaluates them (avg_time, then avg_stage for the keys of
\* stage_times in insertion order).
MeanKeys == <<"processing_times", "bg_removal", "processing", "template">>

\* The deque a mean is taken of: avg_time reads self.processing_times,
\* avg_stage(k) reads self.stage_times[k].
buffer_of(pt, st, k) == IF k = "processing_times" THEN pt ELSE st[k]

\* No to_dict() is between two reads.
NoSnapshot == [reported |-> 0, mean |-> Zero, summed |-> FALSE, sum |-> 0]

\* Metrics.error_rate
\* (variant: the division without the test of total_requests)
error_rate_NoGuard(m) == true_div(m.total_errors, m.total_requests)
error_rate(m) ==
    IF m.total_requests # 0 THEN true_div(m.total_errors, m.total_requests) ELSE Zero

\* Metrics.avg_stage: self.stage_times.get(stage, []) is the empty list for a
\* name that is no key.
avg_stage(st, stage) ==
    LET d == IF stage \in DOMAIN st THEN st[stage] ELSE <<>>
    IN  IF d # <<>> THEN true_div(SumSeq(d), Len(d)) ELSE Zero

\* _check_disk_space: TRUE when it raises HTTPException(503).
\* (variant: a guard that never raises)
check_disk_space_NoGuard(free_mb) == FALSE
check_disk_space(free_mb) ==
    IF free_mb = -1 THEN FALSE          \* except Exception: pass
    ELSE free_mb < MIN_DISK_MB

\* _acquire_slot, line 123: the queue-limit test.
\* (variant: > for >=)
QueueFull_Off(m) == m.current_queued > MAX_QUEUE_SIZE
QueueFull(m) == m.current_queued >= MAX_QUEUE_SIZE

\* _acquire_slot, lines 124-125: the rejection (raised before the try block).
\* (variant: raised inside the try block, so that the finally decrements
\* current_queued)
reject_InsideTry(m) == [m EXCEPT !.total_rejected = @ + 1, !.current_queued = @ - 1]
reject(m) == [m EXCEPT !.total_rejected = @ + 1]

\* _acquire_slot, lines 127-130, when acquire() raises CancelledError: the
\* finally clause decrements current_queued and the exception leaves the
\* function, so line 131 is not reached.
\* (variant: the increment of current_processing placed in the finally clause)
acquire_slot_aborted_CountsProcessing(m) ==
    [m EXCEPT !.current_queued = @ - 1, !.current_processing = @ + 1]
acquire_slot_aborted(m) == [m EXCEPT !.current_queued = @ - 1]

\* asyncio.Semaphore.locked(): no permit, or some waiter that is not cancelled.
locked(s, p) ==
    \/ s.value = 0
    \/ \E i \in 1..Len(s.waiters) : p[s.waiters[i]] # "wcancel"

\* asyncio.Semaphore._wake_up_next(): hand a permit to the first pending waiter.
PendingIdx(s, p) == {i \in 1..Len(s.waiters) : p[s.waiters[i]] = "waiting"}

\* (variant: a release that wakes nobody)
wake_up_next_Never(s, p) == [sem |-> s, pc |-> p]
wake_up_next(s, p) ==
    IF PendingIdx(s, p) = {}
    THEN [sem |-> s, pc |-> p]
    ELSE LET w == s.waiters[SetMin(PendingIdx(s, p))]
         IN  [sem |-> [s EXCEPT !.value = @ - 1],
              pc  |-> [p EXCEPT ![w] = "granted"]]

\* asyncio.Semaphore.release()
sem_release(s, p) == wake_up_next([s EXCEPT !.value = @ + 1], p)

\* _release_slot
\* (variant: the permit is given back but current_processing is not decremented)
release_slot_NoDecrement(m, s, p) ==
    LET w == sem_release(s, p)
    IN  [metrics |-> m, sem |-> w.sem, pc |-> w.pc, released |-> 1]
release_slot(m, s, p) ==
    LET w == sem_release(s, p)
    IN  [metrics |-> [m EXCEPT !.current_processing = @ - 1],
         sem |-> w.sem, pc |-> w.pc, released |-> 1]

\* What the stage function does in its thread: it returns, or it raises.
\* "TimeoutError" is the builtin TimeoutError or a subclass of it (what a
\* socket or file operation that timed out raises), "Exception" any other
\* exception.
StageOutcomes == {"return", "Exception", "TimeoutError"}

\* _run_processing, lines 252-265: the clauses that what the awaited future
\* delivers can select.  asyncio.TimeoutError is the builtin TimeoutError
\* from Python 3.11 on, so there the clause of line 254 also takes a
\* TimeoutError that the stage raised; on Python 3.9 and 3.10 it is a class
\* of asyncio's own and the clause of line 262 takes it.
except_clause(raised) ==
    CASE raised = "return"       -> {"ok"}
      [] raised = "Exception"    -> {"exception"}
      [] raised = "TimeoutError" -> {"timeout", "exception"}

\* _run_processing: the except clauses (which counters an outcome increments).
\* (variant: the timeout clause counts an error only)
count_outcome_TimeoutAsError(kind, m) ==
    CASE kind = "ok"             -> [m EXCEPT !.total_success = @ + 1]
      [] kind = "timeout"        -> [m EXCEPT !.total_errors = @ + 1]
      [] kind = "exception"      -> [m EXCEPT !.total_errors = @ + 1]
      [] kind = "cancelled"      -> m
\* (variant: the timeout clause counts a timeout but no error)
count_outcome_TimeoutOnly(kind, m) ==
    CASE kind = "ok"             -> [m EXCEPT !.total_success = @ + 1]
      [] kind = "timeout"        -> [m EXCEPT !.total_timeouts = @ + 1]
      [] kind = "exception"      -> [m EXCEPT !.total_errors = @ + 1]
      [] kind = "cancelled"      -> m
\* (variant: a failed request is taken out of total_requests again)
count_outcome_Uncount(kind, m) ==
    CASE kind = "ok"             -> [m EXCEPT !.total_success = @ + 1]
      [] kind = "timeout"        -> [m EXCEPT !.total_timeouts = @ + 1,
                                              !.total_errors = @ + 1]
      [] kind = "exception"      -> [m EXCEPT !.total_errors = @ + 1,
                                              !.total_requests = @ - 1]
      [] kind = "cancelled"      -> m
count_outcome(kind, m) ==
    CASE kind = "ok"             -> [m EXCEPT !.total_success = @ + 1]
      [] kind = "timeout"        -> [m EXCEPT !.total_timeouts = @ + 1,
                                              !.total_errors = @ + 1]
      [] kind = "exception"      -> [m EXCEPT !.total_errors = @ + 1]
      [] kind = "cancelled"      -> m    \* CancelledError is no Exception

\* _run_processing: what the caller gets for an outcome.
outcome_result(kind) ==
    CASE kind = "ok"             -> "ok"
      [] kind = "timeout"        -> "Timeout"        \* HTTPException(504)
      [] kind = "exception"      -> "StageError"     \* HTTPException(500)
      [] kind = "cancelled"      -> "Cancelled"

\* _run_processing: the finally clause, run on every exit of the try block.
\* (variant: the release at the end of the try block instead of in a finally)
run_processing_finally_OnlyOnSuccess(kind, m, s, p) ==
    IF kind = "ok" THEN release_slot(m, s, p)
    ELSE [metrics |-> m, sem |-> s, pc |-> p, released |-> 0]
run_processing_finally(kind, m, s, p) == release_slot(m, s, p)

\* wait_for(): the deadline of request r is due.
\* (variant: the deadline waits for the worker thread to end)
deadline_due_AwaitsWorker(r) == elapsed[r] = REQUEST_TIMEOUT /\ worker[r] # "running"
deadline_due(r) == elapsed[r] = REQUEST_TIMEOUT

\* run_in_executor(None, ...), line 249: the stage function of a request runs
\* on a thread of the executor's pool, never on the thread of the event loop.
\* (variant: the stage function is called in the coroutine itself)
stage_on_loop_thread_Inline(r) == worker[r] = "running"
stage_on_loop_thread(r) == FALSE

\* The event loop can run a coroutine, a callback or a signal handler: its
\* thread is not inside a stage function.
LoopFree == \A r \in Requests : ~stage_on_loop_thread(r)

\* ServiceState of the spec, read off the lifespan position and the event.
ServiceState ==
    IF phase = "uninitialized" THEN "uninitialized"
    ELSE IF phase = "stopped" THEN "stopped"
    ELSE IF shutdown_event THEN "draining"
    ELSE "running"

\* health(): the "status" field.
\* (variant: the two values of the conditional expression swapped)
health_status_Swapped == IF shutdown_event THEN "ok" ELSE "shutting_down"
health_status == IF shutdown_event THEN "shutting_down" ELSE "ok"

\* -------------------------------------------------------------------- Init
Init ==
    /\ MAX_CONCURRENT \in 1..MaxConcurrent
    /\ MAX_QUEUE_SIZE \in 0..MaxQueue
    /\ phase = "uninitialized"
    /\ shutdown_event = FALSE
    /\ semaphore = [value |-> 0, waiters |-> <<>>]   \* None until lifespan starts
    /\ metrics = InitMetrics
    /\ pc = [r \in Requests |-> "idle"]
    /\ result = [r \in Requests |-> "none"]
    /\ elapsed = [r \in Requests |-> 0]
    /\ worker = [r \in Requests |-> "none"]
    /\ acquires = [r \in Requests |-> 0]
    /\ releases = [r \in Requests |-> 0]
    /\ waiting_at_signal = {}
    /\ disk_low = FALSE
    /\ processing_times = <<>>
    /\ stage_times = [n \in StageNames |-> <<>>]
    /\ pool = [t \in Threads |-> IdleThread]
    /\ evicted = FALSE
    /\ snapshot = NoSnapshot
    /\ existed = [i \in DOMAIN MeanKeys |-> {<<>>}]
    /\ handed = 0

\* ----------------------------------------------------------------- actions

\* lifespan(), up to the yield: the semaphore and the event are created.
Startup ==
    /\ phase = "uninitialized"
    /\ phase' = "running"
    /\ semaphore' = [value |-> MAX_CONCURRENT, waiters |-> <<>>]
    /\ shutdown_event' = FALSE
    /\ UNCHANGED <<MAX_CONCURRENT, MAX_QUEUE_SIZE, metrics, pc, result, elapsed,
                   worker, acquires, releases, waiting_at_signal, disk_low>>
    /\ UNCHANGED buffer_vars

\* _handle_shutdown(sig): SIGTERM or SIGINT sets the event, nothing else.
\* (lifespan registers it with loop.add_signal_handler, lines 153-154, which
\* makes it the process's only handler of these signals.)
HandleShutdown ==
    /\ phase = "running"
    /\ LoopFree
    /\ \E sig \in {"SIGTERM", "SIGINT"} :
          /\ shutdown_event' = TRUE
          /\ waiting_at_signal' =
                waiting_at_signal \cup {r \in Requests : pc[r] \in {"waiting", "granted"}}
    /\ UNCHANGED <<MAX_CONCURRENT, MAX_QUEUE_SIZE, phase, semaphore, metrics, pc,
                   result, elapsed, worker, acquires, releases, disk_low>>
    /\ UNCHANGED buffer_vars

\* lifespan(), after the yield (lines 156-158): the final log line.  The
\* code waits for nothing and checks nothing here; that no request is in
\* flight is the ASGI server's doing, which sends lifespan.shutdown only after
\* it has closed every connection.  Nothing in the code makes the server
\* exit: _shutdown_event has no waiter.
LifespanExit ==
    /\ phase = "running"
    /\ LoopFree
    /\ \A r \in Requests : pc[r] \in {"idle", "done"}
    /\ phase' = "stopped"
    /\ UNCHANGED <<MAX_CONCURRENT, MAX_QUEUE_SIZE, shutdown_event, semaphore,
                   metrics, pc, result, elapsed, worker, acquires, releases,
                   waiting_at_signal, disk_low>>
    /\ UNCHANGED buffer_vars

\* _run_processing from its first line to its first suspension:
\* _check_disk_space(), total_requests += 1, _acquire_slot() up to the point
\* where acquire() suspends, or, with a free permit, on to wait_for().
Submit(r) ==
    /\ phase = "running"
    /\ LoopFree
    /\ pc[r] = "idle"
    /\ \A q \in Requests : q < r => pc[q] # "idle"   \* numbered in order of arrival
    /\ \E free_mb \in DiskProbes :
        /\ disk_low' = (free_mb # -1 /\ free_mb < MIN_DISK_MB)
        /\ IF check_disk_space(free_mb)
           THEN \* HTTPException(503) before anything is counted
                /\ pc' = [pc EXCEPT ![r] = "done"]
                /\ result' = [result EXCEPT ![r] = "ResourceExhausted"]
                /\ UNCHANGED <<metrics, semaphore, elapsed, worker, acquires>>
           ELSE LET m1 == [metrics EXCEPT !.total_requests = @ + 1] IN
                IF QueueFull(m1)
                THEN \* rejected: HTTPException(503) "Server busy"
                     /\ metrics' = reject(m1)
                     /\ pc' = [pc EXCEPT ![r] = "done"]
                     /\ result' = [result EXCEPT ![r] = "QueueFull"]
                     /\ UNCHANGED <<semaphore, elapsed, worker, acquires>>
                ELSE IF ~locked(semaphore, pc)
                THEN \* acquire() returns at once: queued +1 -1, processing +1,
                     \* the stage function is handed to the executor
                     /\ semaphore' = [semaphore EXCEPT !.value = @ - 1]
                     /\ metrics' = [m1 EXCEPT !.current_processing = @ + 1]
                     /\ pc' = [pc EXCEPT ![r] = "executing"]
                     /\ worker' = [worker EXCEPT ![r] = "running"]
                     /\ elapsed' = [elapsed EXCEPT ![r] = 0]
                     /\ acquires' = [acquires EXCEPT ![r] = @ + 1]
                     /\ UNCHANGED result
                ELSE \* acquire() suspends on a new future at the end of the FIFO
                     /\ semaphore' = [semaphore EXCEPT !.waiters = Append(@, r)]
                     /\ metrics' = [m1 EXCEPT !.current_queued = @ + 1]
                     /\ pc' = [pc EXCEPT ![r] = "waiting"]
                     /\ UNCHANGED <<result, elapsed, worker, acquires>>
    /\ UNCHANGED <<MAX_CONCURRENT, MAX_QUEUE_SIZE, phase, shutdown_event, releases,
                   waiting_at_signal>>
    /\ UNCHANGED buffer_vars

\* A waiter whose future was resolved resumes: acquire() removes the future
\* and returns, the finally of _acquire_slot decrements current_queued,
\* current_processing is incremented and wait_for() starts.
Resume(r) ==
    /\ pc[r] = "granted"
    /\ LoopFree
    /\ LET s1 == [semaphore EXCEPT !.waiters = Remove(@, r)]
           w  == IF s1.value > 0 THEN wake_up_next(s1, pc)
                 ELSE [sem |-> s1, pc |-> pc]
       IN  /\ semaphore' = w.sem
           /\ pc' = [w.pc EXCEPT ![r] = "executing"]
    /\ metrics' = [metrics EXCEPT !.current_queued = @ - 1,
                                  !.current_processing = @ + 1]
    /\ worker' = [worker EXCEPT ![r] = "running"]
    /\ elapsed' = [elapsed EXCEPT ![r] = 0]
    /\ acquires' = [acquires EXCEPT ![r] = @ + 1]
    /\ waiting_at_signal' = waiting_at_signal \ {r}
    /\ UNCHANGED <<MAX_CONCURRENT, MAX_QUEUE_SIZE, phase, shutdown_event, result,
                   releases, disk_low>>
    /\ UNCHANGED buffer_vars

\* An exit of the try block of _run_processing: the except clause of the
\* outcome, then the finally clause.
Exit(r, kind) ==
    LET m1  == count_outcome(kind, metrics)
        rel == run_processing_finally(kind, m1, semaphore, pc)
    IN  /\ metrics' = rel.metrics
        /\ semaphore' = rel.sem
        /\ pc' = [rel.pc EXCEPT ![r] = "done"]
        /\ result' = [result EXCEPT ![r] = outcome_result(kind)]
        /\ releases' = [releases EXCEPT ![r] = @ + rel.released]
        /\ elapsed' = [elapsed EXCEPT ![r] = 0]    \* the timer handle is dropped

\* The stage function returns or raises in its thread before the deadline
\* is handled; wait_for() delivers that to the coroutine.  (The stage
\* functions of this repository raise no HTTPException, so the clause of
\* line 259 is not taken.)
StageComplete(r) ==
    /\ pc[r] = "executing"
    /\ worker[r] = "running"
    /\ \E raised \in StageOutcomes :
          \E kind \in except_clause(raised) : Exit(r, kind)
    /\ worker' = [worker EXCEPT ![r] = "finished"]
    /\ UNCHANGED <<MAX_CONCURRENT, MAX_QUEUE_SIZE, phase, shutdown_event,
                   acquires, waiting_at_signal, disk_low>>
    /\ UNCHANGED buffer_vars

\* The deadline of wait_for() elapses: the future is cancelled (the thread
\* keeps running), asyncio.TimeoutError is raised into _run_processing.
Timeout(r) ==
    /\ pc[r] = "executing"
    /\ LoopFree
    /\ deadline_due(r)
    /\ Exit(r, "timeout")
    /\ UNCHANGED <<MAX_CONCURRENT, MAX_QUEUE_SIZE, phase, shutdown_event,
                   worker, acquires, waiting_at_signal, disk_low>>
    /\ UNCHANGED buffer_vars

\* Time passes for every running deadline; a deadline that is due is handled
\* before more time passes (the event loop is never blocked by stage work).
Tick ==
    /\ \E r \in Requests : pc[r] = "executing"
    /\ \A r \in Requests : pc[r] = "executing" => elapsed[r] < REQUEST_TIMEOUT
    /\ elapsed' = [r \in Requests |->
                     IF pc[r] = "executing" THEN elapsed[r] + 1 ELSE elapsed[r]]
    /\ UNCHANGED <<MAX_CONCURRENT, MAX_QUEUE_SIZE, phase, shutdown_event, semaphore,
                   metrics, pc, result, worker, acquires, releases,
                   waiting_at_signal, disk_low>>
    /\ UNCHANGED buffer_vars

\* The request's task is cancelled (the client went away).
Cancel(r) ==
    /\ pc[r] \in {"waiting", "granted", "executing"}
    /\ LoopFree
    /\ CASE pc[r] = "waiting" ->
              \* the pending future is cancelled; the coroutine resumes later
              /\ pc' = [pc EXCEPT ![r] = "wcancel"]
              /\ UNCHANGED <<semaphore, metrics, result, releases, elapsed>>
         [] pc[r] = "granted" ->
              \* CancelledError at the await of a resolved future: acquire()
              \* gives the permit back and wakes the next waiter, the finally
              \* of _acquire_slot decrements current_queued
              LET s1 == [semaphore EXCEPT !.waiters = Remove(@, r),
                                          !.value = @ + 1]
                  w  == wake_up_next(s1, pc)
              IN  /\ semaphore' = w.sem
                  /\ pc' = [w.pc EXCEPT ![r] = "done"]
                  /\ metrics' = acquire_slot_aborted(metrics)
                  /\ result' = [result EXCEPT ![r] = "Cancelled"]
                  /\ UNCHANGED <<releases, elapsed>>
         [] pc[r] = "executing" ->
              \* CancelledError inside the try block: only the finally runs
              Exit(r, "cancelled")
    /\ waiting_at_signal' = waiting_at_signal \ {r}
    /\ UNCHANGED <<MAX_CONCURRENT, MAX_QUEUE_SIZE, phase, shutdown_event,
                   worker, acquires, disk_low>>
    /\ UNCHANGED buffer_vars

\* A waiter whose future was cancelled resumes: acquire() removes the future
\* and re-raises, the finally of _acquire_slot decrements current_queued.
CancelResume(r) ==
    /\ pc[r] = "wcancel"
    /\ LoopFree
    /\ semaphore' = [semaphore EXCEPT !.waiters = Remove(@, r)]
    /\ metrics' = acquire_slot_aborted(metrics)
    /\ pc' = [pc EXCEPT ![r] = "done"]
    /\ result' = [result EXCEPT ![r] = "Cancelled"]
    /\ UNCHANGED <<MAX_CONCURRENT, MAX_QUEUE_SIZE, phase, shutdown_event, elapsed,
                   worker, acquires, releases, waiting_at_signal, disk_low>>
    /\ UNCHANGED buffer_vars

\* The thread of a request that timed out or was cancelled finishes its
\* stage function in the background.
WorkerFinish(r) ==
    /\ pc[r] = "done"
    /\ worker[r] = "running"
    /\ worker' = [worker EXCEPT ![r] = "finished"]
    /\ UNCHANGED <<MAX_CONCURRENT, MAX_QUEUE_SIZE, phase, shutdown_event, semaphore,
                   metrics, pc, result, elapsed, acquires, releases,
                   waiting_at_signal, disk_low>>
    /\ UNCHANGED buffer_vars

Next ==
    \/ Startup
    \/ HandleShutdown
    \/ LifespanExit
    \/ Tick
    \/ \E r \in Requests : Submit(r)
    \/ \E r \in Requests : Resume(r)
    \/ \E r \in Requests : StageComplete(r)
    \/ \E r \in Requests : Timeout(r)
    \/ \E r \in Requests : Cancel(r)
    \/ \E r \in Requests : CancelResume(r)
    \/ \E r \in Requests : WorkerFinish(r)

Spec == Init /\ [][Next]_vars

\* The event loop runs every coroutine that is ready and fires every timer
\* that is due, and time passes.  Arrivals, signals, cancellations and the
\* return of a stage function are not guaranteed; neither is the server's
\* exit, which no line of the code brings about (see LifespanExit).
Fairness ==
    /\ WF_vars(Startup)
    /\ WF_vars(Tick)
    /\ \A r \in Requests : WF_vars(Resume(r))
    /\ \A r \in Requests : WF_vars(Timeout(r))
    /\ \A r \in Requests : WF_vars(CancelResume(r))

FairSpec == Init /\ [][Next]_vars /\ Fairness

\* _release_slot() called once more for a request that has already released
\* its slot: the double release, a programming error.  No line of the code
\* makes this call (C3_NoLeakedSlot), so it is no disjunct of Next; it is
\* what _release_slot does when so called, at most once in a behaviour.
DoubleRelease ==
    /\ phase = "running"
    /\ LoopFree
    /\ \A q \in Requests : releases[q] <= 1
    /\ \E r \in Requests :
          /\ pc[r] = "done" /\ releases[r] = 1
          /\ releases' = [releases EXCEPT ![r] = @ + 1]
    /\ LET rel == release_slot(metrics, semaphore, pc)
       IN  /\ metrics' = rel.metrics
           /\ semaphore' = rel.sem
           /\ pc' = rel.pc
    /\ UNCHANGED <<MAX_CONCURRENT, MAX_QUEUE_SIZE, phase, shutdown_event, result,
                   elapsed, worker, acquires, waiting_at_signal, disk_low>>
    /\ UNCHANGED buffer_vars

ReleaseNext == Next \/ DoubleRelease

\* The program with one double release injected.
ReleaseSpec == Init /\ [][ReleaseNext]_vars

\* ---------------------------------------------- the closures in the pool
\* The endpoint closures (_do) run on the executor's threads and append to
\* the duration deques of the Metrics singleton; the event loop does not
\* wait for them (a closure may outlive its request, see WorkerFinish).

\* The counters <<total_requests, total_errors>> a server can show once the
\* requests handled before have ended: none handled; two, one of them failed.
CounterInputs == {<<0, 0>>, <<2, 1>>}

\* A running server, its slots free, with the counters of the requests
\* handled before and fresh deques.
MetricsInit ==
    /\ MAX_CONCURRENT = MaxConcurrent
    /\ MAX_QUEUE_SIZE = MaxQueue
    /\ phase = "running"
    /\ shutdown_event = FALSE
    /\ semaphore = [value |-> MAX_CONCURRENT, waiters |-> <<>>]
    /\ \E c \in CounterInputs :
          metrics = [InitMetrics EXCEPT !.total_requests = c[1],
                                        !.total_errors = c[2]]
    /\ pc = [r \in Requests |-> "idle"]
    /\ result = [r \in Requests |-> "none"]
    /\ elapsed = [r \in Requests |-> 0]
    /\ worker = [r \in Requests |-> "none"]
    /\ acquires = [r \in Requests |-> 0]
    /\ releases = [r \in Requests |-> 0]
    /\ waiting_at_signal = {}
    /\ disk_low = FALSE
    /\ processing_times = <<>>
    /\ stage_times = [n \in StageNames |-> <<>>]
    /\ pool = [t \in Threads |-> IdleThread]
    /\ evicted = FALSE
    /\ snapshot = NoSnapshot
    /\ existed = [i \in DOMAIN MeanKeys |-> {<<>>}]
    /\ handed = 0

\* run_in_executor (line 249) hands the closure of an endpoint to an idle
\* thread: the closure reads t0 and enters its first stage.  A closure is
\* handed over only for a request that line 244 has counted.
DoCall(t) ==
    /\ pool[t] = IdleThread
    /\ metrics.total_requests > 0
    /\ \E ep \in Endpoints : pool' = [pool EXCEPT ![t] = [ep |-> ep, at |-> 1]]
    /\ UNCHANGED <<processing_times, stage_times, evicted>>
    /\ UNCHANGED gateway_vars

\* The stage the closure is in returns: its duration is appended to the
\* deque of the stage; after the last stage the overall duration (not less
\* than the last stage's) is appended to processing_times and the closure
\* returns.
DoStageReturns(t) ==
    /\ pool[t] # IdleThread
    /\ LET stages == Pipeline(pool[t].ep)
           name   == stages[pool[t].at]
           last   == pool[t].at = Len(stages)
       IN  \E d \in Durations :
             /\ stage_times' = [stage_times EXCEPT ![name] = deque_append(@, d)]
             /\ IF last
                THEN /\ \E total \in {x \in Durations : x >= d} :
                          processing_times' = deque_append(processing_times, total)
                     /\ pool' = [pool EXCEPT ![t] = IdleThread]
                     /\ evicted' = (\/ evicted
                                    \/ Len(stage_times[name]) = maxlen
                                    \/ Len(processing_times) = maxlen)
                ELSE /\ pool' = [pool EXCEPT ![t].at = @ + 1]
                     /\ evicted' = (evicted \/ Len(stage_times[name]) = maxlen)
                     /\ UNCHANGED processing_times
    /\ UNCHANGED gateway_vars

\* The stage the closure is in raises: the exception leaves the closure,
\* which has no try block, so none of the appends that follow is executed.
DoStageRaises(t) ==
    /\ pool[t] # IdleThread
    /\ pool' = [pool EXCEPT ![t] = IdleThread]
    /\ UNCHANGED <<processing_times, stage_times, evicted>>
    /\ UNCHANGED gateway_vars

\* MetricsSpec has no reader of the deques.
MetricsNext ==
    /\ \/ \E t \in Threads : DoCall(t)
       \/ \E t \in Threads : DoStageReturns(t)
       \/ \E t \in Threads : DoStageRaises(t)
    /\ UNCHANGED <<snapshot, existed, handed>>

MetricsSpec == MetricsInit /\ [][MetricsNext]_vars

\* ------------------------------------------- GET /metrics while appending
\* metrics_endpoint runs Metrics.to_dict() on the event loop's thread while
\* the closures append on the executor's threads.  The interpreter can
\* switch threads between any two bytecodes, so between the evaluation of
\* sum(d) and that of len(d) in `sum(d) / len(d) if d else 0`; sum, len
\* and deque.append are single calls into C that hold the interpreter lock.
\* A switch between the test of d and sum(d) changes nothing (a deque is
\* never emptied), so the two are one step.

\* The index in MeanKeys of the mean to_dict evaluates next.
NextMean == (snapshot.reported % Len(MeanKeys)) + 1

\* The mean of one content of a deque.
MeanOf(c) == IF c = <<>> THEN Zero ELSE true_div(SumSeq(c), Len(c))

\* round(q, 3) as to_dict applies it to a mean, in thousandths.  (A tie
\* between two thousandths needs a divisor that does not divide 1000 times
\* the sum; the lengths 1..maxlen of the deques here all do.)
round3(q) == (2000 * q.num + q.den) \div (2 * q.den)

\* avg_time / avg_stage, first part: `d` is tested; an empty d gives 0 at
\* once, otherwise sum(d) is evaluated.
MeanSum ==
    /\ phase = "running"
    /\ ~snapshot.summed
    /\ LET d == buffer_of(processing_times, stage_times, MeanKeys[NextMean])
       IN  snapshot' = IF d = <<>>
                       THEN [reported |-> NextMean, mean |-> Zero,
                             summed |-> FALSE, sum |-> 0]
                       ELSE [snapshot EXCEPT !.summed = TRUE, !.sum = SumSeq(d)]
    /\ UNCHANGED <<processing_times, stage_times, pool, evicted, existed, handed>>
    /\ UNCHANGED gateway_vars

\* avg_time / avg_stage, second part: len(d) is evaluated and the sum held
\* is divided by it; the quotient goes into the dict.
MeanLen ==
    /\ snapshot.summed
    /\ LET d == buffer_of(processing_times, stage_times, MeanKeys[NextMean])
       IN  snapshot' = [reported |-> NextMean,
                        mean |-> true_div(snapshot.sum, Len(d)),
                        summed |-> FALSE, sum |-> 0]
    /\ UNCHANGED <<processing_times, stage_times, pool, evicted, existed, handed>>
    /\ UNCHANGED gateway_vars

\* The contents the deques have after a step, added to those they have had.
Remember ==
    existed' = [i \in DOMAIN MeanKeys |->
                   existed[i] \cup {buffer_of(processing_times', stage_times', MeanKeys[i])}]

\* One more closure is handed to the pool, up to MaxClosures.
Hand ==
    /\ handed < MaxClosures
    /\ handed' = handed + 1

SnapshotNext ==
    \/ (\E t \in Threads : DoCall(t)) /\ Hand /\ UNCHANGED <<snapshot, existed>>
    \/ (\E t \in Threads : DoStageReturns(t)) /\ Remember /\ UNCHANGED <<snapshot, handed>>
    \/ (\E t \in Threads : DoStageRaises(t)) /\ UNCHANGED <<snapshot, existed, handed>>
    \/ MeanSum
    \/ MeanLen

\* The closures in the pool and GET /metrics requests, one after another.
SnapshotSpec == MetricsInit /\ [][SnapshotNext]_vars

TypeOK ==
    /\ MAX_CONCURRENT \in 1..MaxConcurrent
    /\ MAX_QUEUE_SIZE \in 0..MaxQueue
    /\ phase \in {"uninitialized", "running", "stopped"}
    /\ shutdown_event \in BOOLEAN
    /\ semaphore.value \in 0..MaxConcurrent
    /\ pc \in [Requests -> PcValues]
    /\ result \in [Requests -> Results]
    /\ elapsed \in [Requests -> 0..REQUEST_TIMEOUT]
    /\ worker \in [Requests -> {"none", "running", "finished"}]
    /\ disk_low \in BOOLEAN
    /\ Len(processing_times) \in 0..maxlen
    /\ \A i \in 1..Len(processing_times) : processing_times[i] \in Durations
    /\ DOMAIN stage_times = StageNames
    /\ \A n \in StageNames :
          /\ Len(stage_times[n]) \in 0..maxlen
          /\ \A i \in 1..Len(stage_times[n]) : stage_times[n][i] \in Durations
    /\ \A t \in Threads :
          \/ pool[t] = IdleThread
          \/ pool[t].ep \in Endpoints /\ pool[t].at \in 1..Len(Pipeline(pool[t].ep))
    /\ evicted \in BOOLEAN
    /\ snapshot.reported \in 0..Len(MeanKeys)
    /\ snapshot.summed \in BOOLEAN
    /\ DOMAIN existed = DOMAIN MeanKeys
    /\ handed \in 0..MaxClosures

\* ------------------------------------------------------------------ claims
Executing == {r \in Requests : pc[r] = "executing"}
Suspended == {r \in Requests : pc[r] \in {"waiting", "granted", "wcancel"}}
RejectedQueueFull == {r \in Requests : result[r] = "QueueFull"}

\* C1: in every reachable state the number of held slots (current_processing)
\* is at most MAX_CONCURRENT and the number of callers waiting for a slot
\* (current_queued) is at most MAX_QUEUE_SIZE.
C1_SlotAndQueueBounds ==
    /\ metrics.current_processing <= MAX_CONCURRENT
    /\ metrics.current_queued <= MAX_QUEUE_SIZE

\* C1 witness: both limits are reached at once (every slot held, a queue of
\* one full) and a further caller has been turned away.
C1_Witness ==
    /\ MAX_QUEUE_SIZE = 1
    /\ metrics.current_processing = MAX_CONCURRENT
    /\ metrics.current_queued = MAX_QUEUE_SIZE
    /\ RejectedQueueFull # {}

\* No permit has come back yet: no _release_slot ran and no waiter was cancelled.
NoReleaseYet ==
    \A r \in Requests :
        releases[r] = 0 /\ result[r] # "Cancelled" /\ pc[r] # "wcancel"

\* C2 (as claimed, for every C >= 1 and Q >= 0): after C+Q+1 admission
\* attempts with no release in between, exactly C callers execute, exactly Q
\* wait in the queue and exactly 1 was rejected with QueueFull.
C2_Claim ==
    (NoReleaseYet /\ metrics.total_requests = MAX_CONCURRENT + MAX_QUEUE_SIZE + 1)
        => /\ Cardinality(Executing) = MAX_CONCURRENT
           /\ Cardinality(Suspended) = MAX_QUEUE_SIZE
           /\ Cardinality(RejectedQueueFull) = 1

\* C3: every slot granted by _acquire_slot is released exactly once on every
\* exit path of _run_processing (success, stage error, timeout, cancellation):
\* a request holds a slot only while it executes, a finished request has
\* released what it acquired, and the permits (free, handed to a waiter that
\* has not resumed yet, or held) always add up to MAX_CONCURRENT.
C3_NoLeakedSlot ==
    /\ \A r \in Requests :
          /\ acquires[r] <= 1
          /\ releases[r] <= acquires[r]
          /\ pc[r] = "executing" => (acquires[r] = 1 /\ releases[r] = 0)
          /\ pc[r] = "done" => releases[r] = acquires[r]
    /\ metrics.current_processing = Cardinality(Executing)
    /\ phase # "uninitialized" =>
          semaphore.value + metrics.current_processing
              + Cardinality({r \in Requests : pc[r] = "granted"}) = MAX_CONCURRENT

\* C3 witness: three executions have ended, by a stage error, a timeout and
\* a cancellation, and every permit is back.
C3_Witness ==
    /\ \A r \in Requests : pc[r] = "done" /\ acquires[r] = 1 /\ releases[r] = 1
    /\ {result[r] : r \in Requests} = {"StageError", "Timeout", "Cancelled"}
    /\ semaphore.value = MAX_CONCURRENT
    /\ metrics.current_processing = 0

\* C4: a caller that reaches _acquire_slot when current_queued >= MAX_QUEUE_SIZE
\* is rejected with QueueFull in that same step: it does not suspend,
\* current_queued, current_processing and the semaphore are as before, it
\* acquires nothing, and no slot is ever released for it.
C4_Step ==
    \A r \in Requests :
        /\ (/\ pc[r] = "idle" /\ pc'[r] # "idle"
            /\ result'[r] # "ResourceExhausted"
            /\ metrics.current_queued >= MAX_QUEUE_SIZE)
           => /\ pc'[r] = "done"
              /\ result'[r] = "QueueFull"
              /\ metrics'.current_queued = metrics.current_queued
              /\ metrics'.current_processing = metrics.current_processing
              /\ semaphore' = semaphore
              /\ acquires' = acquires
              /\ releases' = releases
        /\ result[r] = "QueueFull"
           => /\ pc'[r] = "done"
              /\ acquires'[r] = 0
              /\ releases'[r] = 0

\* C4: every step of every behaviour rejects such a caller at once (C4_Step).
C4_RejectedAtOnce == [][C4_Step]_vars

\* C4 witness: a caller was rejected while another waited in a full queue, and
\* a slot has been released since.
C4_Witness ==
    \E r, q, h \in Requests :
        /\ MAX_QUEUE_SIZE = 1
        /\ result[r] = "QueueFull"
        /\ q < r /\ pc[q] \in {"waiting", "granted", "executing"} /\ acquires[q] <= 1
        /\ h < q /\ releases[h] = 1
        /\ metrics.total_rejected = 1

\* C5 (as claimed): once the termination signal has been handled, a new
\* submission is rejected with ShuttingDown in that same step, without
\* touching the semaphore or the wait queue.  Stated for the submissions that
\* pass the disk guard and find the queue below its limit, which no other
\* rejection of the code can explain.
C5_Step ==
    \A r \in Requests :
        (/\ shutdown_event
         /\ pc[r] = "idle" /\ pc'[r] # "idle"
         /\ result'[r] # "ResourceExhausted"
         /\ metrics.current_queued < MAX_QUEUE_SIZE)
        => /\ pc'[r] = "done"
           /\ result'[r] = "ShuttingDown"
           /\ semaphore' = semaphore
           /\ metrics'.current_queued = metrics.current_queued
           /\ metrics'.current_processing = metrics.current_processing

\* C5 (as claimed): every submission made while draining is rejected with
\* ShuttingDown at once (C5_Step).
C5_Claim == [][C5_Step]_vars

\* C6: a stage that never returns makes the submission return Timeout once
\* REQUEST_TIMEOUT has elapsed since the slot was granted: an execution that
\* ends while its stage is still running (and was not cancelled) ends at the
\* deadline with Timeout, and every execution ends, whether or not its stage
\* ever returns.
C6_Step ==
    \A r \in Requests :
        /\ (/\ pc[r] = "executing" /\ pc'[r] = "done"
            /\ worker'[r] = "running"
            /\ result'[r] # "Cancelled")
           => (result'[r] = "Timeout" /\ elapsed[r] = REQUEST_TIMEOUT)
        /\ (pc[r] = "executing" /\ pc'[r] = "executing")
           => elapsed'[r] <= REQUEST_TIMEOUT

\* C6: a stalled stage gives Timeout at the deadline (C6_Step), and every
\* execution ends.
C6_TimeoutReturned ==
    /\ [][C6_Step]_vars
    /\ \A r \in Requests : (pc[r] = "executing") ~> (pc[r] = "done")

\* C6 witness: a request has returned Timeout while its stage is still
\* running in the executor.
C6_Witness ==
    \E r \in Requests :
        pc[r] = "done" /\ result[r] = "Timeout" /\ worker[r] = "running"

\* C7: each release wakes exactly one waiting acquirer when one exists (the
\* first of the FIFO; the permit goes to it and not back to the pool), and
\* every caller waiting in the queue is eventually granted a slot and
\* resumes, unless its wait is cancelled.
ReleaseStep == \E r \in Requests : releases'[r] = releases[r] + 1

C7_Step ==
    ReleaseStep =>
        IF PendingIdx(semaphore, pc) # {}
        THEN LET w == semaphore.waiters[SetMin(PendingIdx(semaphore, pc))]
             IN  /\ pc'[w] = "granted"
                 /\ \A q \in Requests \ {w} : pc[q] = "waiting" => pc'[q] = "waiting"
                 /\ semaphore'.value = semaphore.value
        ELSE semaphore'.value = semaphore.value + 1

C8_Step ==
    \A r \in waiting_at_signal :
        /\ pc'[r] # "executing"
        /\ pc'[r] = "done" => result'[r] \in {"ShuttingDown", "Cancelled"}

\* C8 (as claimed): a caller waiting at the termination signal gets
\* ShuttingDown and never executes (C8_Step).
C8_Claim == [][C8_Step]_vars

\* C9 (as claimed): the service state only moves forward through
\* uninitialized -> running -> draining -> stopped, after a termination
\* signal it reaches stopped, and it is stopped only with no slot held.
StateRank(st) ==
    CASE st = "uninitialized" -> 0
      [] st = "running"       -> 1
      [] st = "draining"      -> 2
      [] st = "stopped"       -> 3

C9_Forward == StateRank(ServiceState) <= StateRank(ServiceState')

\* C9 (as claimed): forward-only states, stopped only with no slot held, and
\* stopped reached after a termination signal.
C9_Claim ==
    /\ [][C9_Forward]_vars
    /\ [](ServiceState = "stopped" => metrics.current_processing = 0)
    /\ (ServiceState = "draining") ~> (ServiceState = "stopped")

\* C10: when the free-disk-space guard fails (the probe reports less than
\* MIN_DISK_MB), the submission returns ResourceExhausted in that step: no
\* stage is started, no deadline is started, nothing is counted, acquired,
\* queued or released.
C10_Step ==
    \A r \in Requests :
        (/\ pc[r] = "idle" /\ pc'[r] # "idle"
         /\ disk_low')
        => /\ pc'[r] = "done"
           /\ result'[r] = "ResourceExhausted"
           /\ worker'[r] = "none"
           /\ elapsed' = elapsed
           /\ metrics' = metrics
           /\ semaphore' = semaphore
           /\ acquires' = acquires
           /\ releases' = releases

\* C10: every submission refused by the disk guard changes nothing (C10_Step).
C10_GuardFailure == [][C10_Step]_vars

\* C10 witness: a submission was refused by the disk guard while another
\* request held a slot, and only that other request was counted.
C10_Witness ==
    \E r, q \in Requests :
        /\ result[r] = "ResourceExhausted"
        /\ pc[q] = "executing"
        /\ metrics.total_requests = 1
        /\ metrics.current_processing = 1

\* The stage function of r raised in this step: its thread ended while the
\* coroutine awaited it, and the caller did not get a result.
StageRaised(r) ==
    /\ pc[r] = "executing"
    /\ worker[r] = "running" /\ worker'[r] = "finished"
    /\ result'[r] # "ok"

\* C11 (as claimed): any exception raised by a stage is returned as StageError
\* and counted once in total_errors, the slot of the request is released
\* exactly once, and no other request's outcome, slot, stage or deadline is
\* touched (the only effect on another request is that the released permit
\* is handed to the first waiter).
C11_Others(r) ==
    \A q \in Requests \ {r} :
        /\ result'[q] = result[q]
        /\ acquires'[q] = acquires[q] /\ releases'[q] = releases[q]
        /\ worker'[q] = worker[q] /\ elapsed'[q] = elapsed[q]
        /\ pc'[q] = pc[q] \/ (pc[q] = "waiting" /\ pc'[q] = "granted")

C11_Accounting(r) ==
    /\ pc'[r] = "done"
    /\ metrics'.total_errors = metrics.total_errors + 1
    /\ metrics'.total_success = metrics.total_success
    /\ acquires'[r] = 1 /\ releases'[r] = 1 /\ releases[r] = 0
    /\ metrics'.current_processing = metrics.current_processing - 1
    /\ metrics'.current_processing = Cardinality({q \in Requests : pc'[q] = "executing"})

C11_Step ==
    \A r \in Requests :
        StageRaised(r) => /\ result'[r] = "StageError"
                          /\ C11_Accounting(r)
                          /\ C11_Others(r)

\* C11 (as claimed): every step in which a stage raises gives StageError and
\* leaves the accounting and the other requests intact (C11_Step).
C11_Claim == [][C11_Step]_vars

\* C12 (as claimed): Timeout and StageError are distinct outcomes: a request
\* ends with Timeout (and total_timeouts counted) only when its deadline
\* elapsed while its stage was still running, an exception raised by a stage
\* is never reported as Timeout, and a StageError counts no timeout.
C12_Step ==
    \A r \in Requests :
        (pc[r] = "executing" /\ pc'[r] = "done")
        => /\ result'[r] = "Timeout"
              => /\ elapsed[r] = REQUEST_TIMEOUT
                 /\ worker'[r] = "running"
           /\ metrics'.total_timeouts > metrics.total_timeouts
              => result'[r] = "Timeout"
           /\ StageRaised(r) => result'[r] # "Timeout"

\* C12 (as claimed): every end of an execution keeps Timeout for the elapsed
\* deadline and never reports a stage's exception as Timeout (C12_Step).
C12_Claim == [][C12_Step]_vars

\* C13: every execution that ends in Timeout has incremented total_timeouts
\* by exactly 1 and total_success by nothing: total_timeouts is the number of
\* requests that returned Timeout, total_success the number that returned a
\* result.
C13_TimeoutCounted ==
    /\ metrics.total_timeouts = Cardinality({r \in Requests : result[r] = "Timeout"})
    /\ metrics.total_success = Cardinality({r \in Requests : result[r] = "ok"})

\* C13 witness: the scenario of the claim, a single request on fresh metrics
\* timed out while its stage is still running, and total_timeouts is 1.
C13_Witness ==
    /\ metrics.total_requests = 1
    /\ \E r \in Requests :
          pc[r] = "done" /\ result[r] = "Timeout" /\ worker[r] = "running"
    /\ metrics.total_timeouts = 1
    /\ metrics.total_success = 0

\* C14: the metrics snapshot never divides by zero.  error_rate() is 0 when
\* total_requests is 0 and total_errors / total_requests otherwise; the mean
\* of an empty duration buffer (avg_time, avg_stage of a stage with no sample
\* yet, avg_stage of a name that is no stage) is 0; no mean of a buffer that
\* holds samples divides by zero either.
C14_NoDivisionByZero ==
    /\ ~error_rate(metrics).zero_division
    /\ metrics.total_requests = 0 => error_rate(metrics) = Zero
    /\ metrics.total_requests # 0 =>
          error_rate(metrics) = [zero_division |-> FALSE,
                                 num |-> metrics.total_errors,
                                 den |-> metrics.total_requests]
    /\ ~avg_time(processing_times).zero_division
    /\ processing_times = <<>> => avg_time(processing_times) = Zero
    /\ \A k \in StageNames \cup {"unknown"} :
          /\ ~avg_stage(stage_times, k).zero_division
          /\ (k \notin StageNames \/ stage_times[k] = <<>>)
                => avg_stage(stage_times, k) = Zero

\* C14 witness: a snapshot taken while the first closure of a server is
\* between two stages: one stage buffer holds a sample, another stage buffer
\* and processing_times are still empty.
C14_Witness ==
    /\ metrics.total_requests # 0
    /\ stage_times["bg_removal"] # <<>>
    /\ stage_times["template"] = <<>>
    /\ processing_times = <<>>
    /\ \E t \in Threads : pool[t] # IdleThread

\* The stage executions running on the worker pool.
RunningStages == {r \in Requests : worker[r] = "running"}

\* C15 (as claimed): at any time at most MAX_CONCURRENT stage executions are
\* running on the worker pool, counting those still running in the
\* background after their request timed out.
C15_Claim == Cardinality(RunningStages) <= MAX_CONCURRENT

\* C16 (as claimed): a release with no matching held slot is caught: it
\* neither raises the number of available permits above MAX_CONCURRENT nor
\* drives current_processing below 0.
C16_Claim ==
    /\ semaphore.value <= MAX_CONCURRENT
    /\ metrics.current_processing >= 0

\* C17 (as claimed): whenever a stage that a closure started ends, by
\* returning or by raising, a duration sample is appended to that stage's
\* buffer, and when the closure ends with it the overall duration is appended
\* to processing_times.
C17_Step ==
    \A t \in Threads :
        (pool[t] # IdleThread /\ pool'[t] # pool[t])
        => LET name == Pipeline(pool[t].ep)[pool[t].at]
           IN  /\ \E d \in Durations :
                     stage_times'[name] = deque_append(stage_times[name], d)
               /\ pool'[t] = IdleThread
                     => \E d \in Durations :
                           processing_times' = deque_append(processing_times, d)

\* C17 (as claimed): every end of a started stage records its timing, and
\* every end of a closure the overall timing (C17_Step).
C17_Claim == [][C17_Step]_vars

\* C18: stage work never blocks the dispatcher.  While a server is running,
\* the next arriving request can always be taken at once, whatever the
\* stages are doing; and when it arrives while MAX_CONCURRENT executions hold
\* the slots it is decided in that same step (queued, or rejected with
\* QueueFull), in which no stage and no deadline makes progress.
NextArrival(r) ==
    /\ phase = "running"
    /\ pc[r] = "idle"
    /\ \A q \in Requests : q < r => pc[q] # "idle"

C18_Step ==
    \A r \in Requests :
        (/\ pc[r] = "idle" /\ pc'[r] # "idle"
         /\ result'[r] # "ResourceExhausted"
         /\ metrics.current_processing = MAX_CONCURRENT)
        => /\ \/ pc'[r] = "waiting" /\ metrics'.current_queued = metrics.current_queued + 1
              \/ pc'[r] = "done" /\ result'[r] = "QueueFull"
           /\ worker' = worker
           /\ elapsed' = elapsed
           /\ \A q \in Requests \ {r} : pc'[q] = pc[q]

\* C18: a submission is always possible on a running server and is decided
\* at once when every slot is held (C18_Step).
C18_DispatcherFree ==
    /\ [](\A r \in Requests : NextArrival(r) => ENABLED Submit(r))
    /\ [][C18_Step]_vars

\* C18 witness: every slot is held by a request whose stage is running and
\* whose deadline clock has not advanced, the queue is full, and both a queued
\* and a rejected request have been decided meanwhile.
C18_Witness ==
    /\ MAX_QUEUE_SIZE = 1
    /\ metrics.current_processing = MAX_CONCURRENT
    /\ \A q \in Requests : pc[q] = "executing" => (worker[q] = "running" /\ elapsed[q] = 0)
    /\ \E r \in Requests : pc[r] = "waiting"
    /\ \E r \in Requests : result[r] = "QueueFull"
    /\ \A q \in Requests : releases[q] = 0

\* One step of a buffer from d to e: nothing, or one sample appended, the
\* oldest sample dropped if d was full and the others kept in their order.
C19_Appended(d, e) ==
    \/ e = d
    \/ \E x \in Durations :
          e = IF Len(d) < maxlen THEN d \o <<x>>
              ELSE SubSeq(d, 2, Len(d)) \o <<x>>

C19_Step ==
    /\ C19_Appended(processing_times, processing_times')
    /\ \A n \in StageNames : C19_Appended(stage_times[n], stage_times'[n])

\* C19: processing_times and every per-stage buffer never hold more than
\* maxlen samples, and an append to a full buffer evicts the oldest sample
\* and keeps the remaining ones in arrival order (C19_Step).
C19_RingBuffers ==
    /\ [](/\ Len(processing_times) <= maxlen
          /\ \A n \in StageNames : Len(stage_times[n]) <= maxlen)
    /\ [][C19_Step]_vars

\* C19 witness: samples have been evicted, every buffer is full, and
\* processing_times holds two different samples, the older one first.
C19_Witness ==
    /\ evicted
    /\ Len(processing_times) = maxlen
    /\ processing_times[1] # processing_times[maxlen]
    /\ \A n \in StageNames : Len(stage_times[n]) = maxlen

\* C20: no step decreases total_requests, total_success, total_errors,
\* total_timeouts or total_rejected.
C20_Step ==
    /\ metrics'.total_requests >= metrics.total_requests
    /\ metrics'.total_success >= metrics.total_success
    /\ metrics'.total_errors >= metrics.total_errors
    /\ metrics'.total_timeouts >= metrics.total_timeouts
    /\ metrics'.total_rejected >= metrics.total_rejected

\* C20: the five counters never decrease (C20_Step in every step).
C20_Monotone == [][C20_Step]_vars

\* C20 witness: every counter has been incremented: three requests counted,
\* one rejected, one timed out (an error), one succeeded.
C20_Witness ==
    /\ metrics.total_requests = 3
    /\ metrics.total_rejected = 1
    /\ metrics.total_timeouts = 1
    /\ metrics.total_errors = 1
    /\ metrics.total_success = 1

\* C21: a snapshot taken while the closures append never observes a
\* partially written sample: every mean to_dict() has put into its dict
\* (rounded to three decimals) is the mean of a content its deque has had
\* at some instant, from the start of the server to the moment the mean was
\* computed or later.
C21_Claim ==
    snapshot.reported > 0 =>
        \E c \in existed[snapshot.reported] : round3(snapshot.mean) = round3(MeanOf(c))

\* No request has been cancelled so far.
NoCancelled ==
    \A r \in Requests : result[r] # "Cancelled" /\ pc[r] # "wcancel"

\* C22: in every state (the dispatcher switches between requests only at the
\* awaits, which is where the steps of the model end) in which no request
\* has been cancelled, total_requests = total_success + total_errors +
\* total_rejected + current_processing + current_queued.
C22_CounterBalance ==
    NoCancelled =>
        metrics.total_requests =
            metrics.total_success + metrics.total_errors + metrics.total_rejected
                + metrics.current_processing + metrics.current_queued

\* C22 witness: three counted requests, none cancelled: one failed, one was
\* rejected and one is executing.
C22_Witness ==
    /\ NoCancelled
    /\ metrics.total_requests = 3
    /\ metrics.total_errors = 1
    /\ metrics.total_rejected = 1
    /\ metrics.current_processing = 1

\* The requests that have returned from _acquire_slot and not yet run
\* _release_slot.
HoldingSlot == {r \in Requests : acquires[r] > releases[r]}

\* C23: current_processing (what health and metrics report) is the number
\* of requests that have returned from _acquire_slot and not yet run
\* _release_slot, current_processing plus the semaphore's available permits
\* never exceeds MAX_CONCURRENT, and current_queued is the number of requests
\* suspended inside the permit acquisition.
C23_ReportedCounts ==
    /\ metrics.current_processing = Cardinality(HoldingSlot)
    /\ metrics.current_processing + semaphore.value <= MAX_CONCURRENT
    /\ metrics.current_queued = Cardinality(Suspended)

\* C23 witness: a slot is held, a permit is on its way to a queued request
\* that has not resumed yet (so held plus available is below MAX_CONCURRENT),
\* and that request is still counted as queued.
C23_Witness ==
    /\ metrics.current_processing >= 1
    /\ metrics.current_processing + semaphore.value < MAX_CONCURRENT
    /\ metrics.current_queued = 1
    /\ \E r \in Requests : pc[r] = "granted"

\* The permits: available, on their way to a waiter, or held.
Permits(s, p, m) ==
    s.value + Cardinality({q \in Requests : p[q] = "granted"}) + m.current_processing

\* C24: when the wait of a caller for a permit is aborted (its task is
\* cancelled while it is suspended in _acquire_slot), the step in which it
\* leaves _acquire_slot decrements current_queued by one, leaves
\* current_processing as it is, acquires and releases nothing, and leaves no
\* permit with the caller; and _release_slot is never run for it.
C24_Step ==
    \A r \in Requests :
        /\ (pc[r] \in {"waiting", "granted", "wcancel"} /\ pc'[r] = "done")
           => /\ result'[r] = "Cancelled"
              /\ metrics'.current_queued = metrics.current_queued - 1
              /\ metrics'.current_processing = metrics.current_processing
              /\ acquires'[r] = 0 /\ releases'[r] = 0
              /\ Permits(semaphore', pc', metrics') = MAX_CONCURRENT
              /\ r \notin {semaphore'.waiters[i] : i \in 1..Len(semaphore'.waiters)}
        /\ (pc[r] = "done" /\ acquires[r] = 0)
           => /\ releases'[r] = 0
              /\ acquires'[r] = 0

\* C24: every aborted wait is accounted for as above (C24_Step).
C24_AbortedWait == [][C24_Step]_vars

\* C24 witness: a caller whose wait was cancelled is done with nothing
\* acquired or released, the queue is empty again, and the slot it was
\* waiting for is still held by the request that had it.
C24_Witness ==
    \E r, q \in Requests :
        /\ pc[r] = "done" /\ result[r] = "Cancelled"
        /\ acquires[r] = 0 /\ releases[r] = 0
        /\ metrics.current_queued = 0
        /\ pc[q] = "executing"
        /\ metrics.current_processing = 1

\* C25: shutdown is irreversible.  health reports ok as long as no
\* termination signal has been handled; it changes only from ok to
\* shutting_down, only in the step in which _handle_shutdown runs, and
\* once it reports shutting_down it does so in every later state.
C25_Step ==
    /\ health_status = "shutting_down" => health_status' = "shutting_down"
    /\ health_status' # health_status
          => /\ phase = "running"
             /\ ~shutdown_event /\ shutdown_event'
             /\ UNCHANGED <<phase, semaphore, metrics, pc, result>>

\* C25: before any signal health reports ok, and its status only ever
\* changes from ok to shutting_down, when a signal is handled (C25_Step).
C25_Irreversible ==
    /\ [](~shutdown_event => health_status = "ok")
    /\ [][C25_Step]_vars

\* C25 witness: a signal was handled, requests went on being served, and
\* the server has stopped: health still reports shutting_down.
C25_Witness ==
    /\ health_status = "shutting_down"
    /\ phase = "stopped"
    /\ \E r \in Requests : pc[r] = "done" /\ r \notin waiting_at_signal

====
